---- MODULE Spec2Model ----
(***************************************************************************)
(* orgtraj -- organized trajectories (src/orgtraj.py).                     *)
(*                                                                         *)
(* The module-level functions prepare, h5dump, h5load and find_frame and   *)
(* the methods of class orgtraj are modelled as operators computed the way *)
(* the Python code computes them; the actions apply them to the program    *)
(* state: the orgtraj instance's attribute dictionary, the HDF5 files on   *)
(* disk, the HDFStore handles left open, and the outcome of the last call. *)
(*                                                                         *)
(* Library behaviour is that of the Python 2 / pandas (MultiIndex          *)
(* "labels=" keyword) / numpy / PyTables stack the file is written for.    *)
(* An exception is modelled by its text in an "err" field ("none" when the *)
(* call returned).                                                         *)
(***************************************************************************)
EXTENDS Integers, Sequences, FiniteSets, TLC

VARIABLES
    ot,       \* vars(self) of the orgtraj instance: attribute name -> value
    store,    \* the file system: file name -> HDF5 file (NoFile when absent)
    handles,  \* number of HDFStore handles opened and not closed
    res       \* the last call: its name, its arguments, its outcome

vars == <<ot, store, handles, res>>

----------------------------------------------------------------------------
(* Bounds of the model and the input domains built from them.              *)

MaxN == 2       \* most rows (frames) of a feature array
MaxLeak == 2    \* most handles left open: a call that would leave more is not made

Dims == 1..3                 \* numbers of feature columns
DataVals == {0, 1}           \* values of the features
FrameVals == {3, 7}          \* frame labels a caller supplies
Labels == <<"phi", "psi", "chi", "omega">>

\* A value for an optional argument: None, or the list given.
None == [given |-> FALSE, val |-> <<>>]
Given(list) == [given |-> TRUE, val |-> list]

SeqsUpTo(S, n) == UNION {[1..k -> S] : k \in 0..n}

\* numpy arrays of shape (N, D): every row of one or two columns; of wider
\* rows, those whose columns after the first are 0.
RowsOf(D) == {r \in [1..D -> DataVals] : D > 2 => \A j \in 2..D : r[j] = 0}
Arrays == UNION {{[shape |-> <<N, D>>, rows |-> rs] : rs \in [1..N -> RowsOf(D)]} :
                 <<N, D>> \in (0..MaxN) \X Dims}

FeatureLists == {SubSeq(Labels, 1, L) : L \in 1..Len(Labels)}

----------------------------------------------------------------------------
(* Values.                                                                 *)

NoError == "none"
ValueError == "ValueError: shape mismatch"
EmptyDict == <<>>
NoTable == [values |-> <<>>, columns |-> <<>>, index |-> <<>>]

Range(f) == {f[x] : x \in DOMAIN f}

\* dict.update: the entries of new, then those of old under other keys.
Update(old, new) == new @@ old

----------------------------------------------------------------------------
(* prepare                                                                 *)

\* range(1, n+1) and [0]*n
\* (RangeFrom0 is range(n), the zero-based numbering prepare does not use.)
RangeFrom0(n) == [i \in 1..n |-> i - 1]
RangeFrom1(n) == [i \in 1..n |-> i]
Zeros(n) == [i \in 1..n |-> 0]

\* pd.MultiIndex(levels=[frames, states], labels=[range(N), range(N)]):
\* row i carries levels[0][labels[0][i]] and levels[1][labels[1][i]]; the
\* integrity check refuses a label that is not a position of its level.
MultiIndex(frames, states, N) ==
    IF N > 0 /\ (N - 1 >= Len(frames) \/ N - 1 >= Len(states))
    THEN [err |-> ValueError, index |-> <<>>]
    ELSE [err |-> NoError, index |-> [i \in 1..N |-> <<frames[i], states[i]>>]]

\* pd.DataFrame(data, columns=features, index=index)
DataFrame(data, features, index) ==
    IF Len(features) # data.shape[2] \/ Len(index) # data.shape[1]
    THEN [err |-> ValueError, df |-> NoTable]
    ELSE [err |-> NoError,
          df |-> [values |-> data.rows, columns |-> features, index |-> index]]

prepare(data, features, traj_file, frames, states, metadata) ==
    LET N == data.shape[1]
        fr == IF frames = None THEN RangeFrom1(N) ELSE frames.val
        st == IF states = None THEN Zeros(N) ELSE states.val
        mi == MultiIndex(fr, st, N)
        built == DataFrame(data, features, mi.index)
    IN  IF mi.err # NoError THEN [err |-> mi.err, df |-> NoTable, metadata |-> EmptyDict]
        ELSE IF built.err # NoError
        THEN [err |-> built.err, df |-> NoTable, metadata |-> EmptyDict]
        ELSE [err |-> NoError, df |-> built.df,
              metadata |-> Update(metadata, "traj_file" :> traj_file)]

----------------------------------------------------------------------------
(* The calls of prepare.                                                   *)

PrepareMeta == {EmptyDict, ("note" :> "run1") @@ ("traj_file" :> "old.xtc")}

\* No result yet: the call is about to be made.
Pending == [err |-> "pending"]

\* MSM state lists of every length up to n: 0, 1, 0, ...
StateLists(n) == {[i \in 1..k |-> (i + 1) % 2] : k \in 0..n}

InitPrepare ==
    /\ ot = EmptyDict
    /\ store = EmptyDict
    /\ handles = 0
    /\ res \in {[op |-> "prepare", data |-> data, features |-> features,
                 traj_file |-> "a.xtc", frames |-> frames, states |-> states,
                 metadata |-> metadata, out |-> Pending] :
                data \in Arrays, features \in FeatureLists,
                frames \in {None} \cup {Given(l) : l \in SeqsUpTo(FrameVals, MaxN + 1)},
                states \in {None} \cup {Given(l) : l \in StateLists(MaxN + 1)},
                metadata \in PrepareMeta}

PrepareCall ==
    /\ res.op = "prepare"
    /\ res.out = Pending
    /\ res' = [res EXCEPT !.out = prepare(res.data, res.features, res.traj_file,
                                           res.frames, res.states, res.metadata)]
    /\ UNCHANGED <<ot, store, handles>>

NextPrepare == PrepareCall

SpecPrepare == InitPrepare /\ [][NextPrepare]_vars

----------------------------------------------------------------------------
(* class orgtraj: trajin                                                   *)

\* setattr(self, key, value) for every item of metadata
SetAttrs(self, metadata) == Update(self, metadata)

trajin(self, data, features, traj_file, frames, states, metadata) ==
    LET p == prepare(data, features, traj_file, frames, states, metadata)
    IN  IF p.err # NoError THEN [err |-> p.err, self |-> self]
        ELSE [err |-> NoError,
              self |-> SetAttrs(Update(self, "data" :> p.df), p.metadata)]

----------------------------------------------------------------------------
(* find_frame                                                              *)

NoDataAttr == "AttributeError: orgtraj instance has no attribute 'data'"
NoTrajFileAttr == "AttributeError: orgtraj instance has no attribute 'traj_file'"
NoIndexAttr == "AttributeError: orgtraj instance has no attribute 'index'"
IndexError == "IndexError: list index out of range"
DimensionError == "ValueError: Point dimension must match feature space dimension."
BroadcastError == "ValueError: operands could not be broadcast together"
EmptyMinError == "ValueError: zero-size array to reduction operation minimum which has no identity"

RECURSIVE SumTo(_, _)
SumTo(f, n) == IF n = 0 THEN 0 ELSE f[n] + SumTo(f, n - 1)

\* np.sum((array - point)**2, axis=1); numpy stretches an operand of one
\* column over the columns of the other and refuses any other disagreement.
point_dist(dataframe, point) ==
    LET D == Len(dataframe.columns)
        P == Len(point)
        W == IF D >= P THEN D ELSE P
        sq(row) == [j \in 1..W |->
                     LET a == row[IF D = 1 THEN 1 ELSE j]
                         b == point[IF P = 1 THEN 1 ELSE j]
                     IN  (a - b) * (a - b)]
    IN  IF D # P /\ D # 1 /\ P # 1
        THEN [err |-> BroadcastError, dists |-> <<>>]
        ELSE [err |-> NoError,
              dists |-> [i \in 1..Len(dataframe.values) |->
                          SumTo(sq(dataframe.values[i]), W)]]

\* np.min and np.argmin of a non-empty list: the least value, and the
\* zero-based position of its first occurrence.
Min(list) == CHOOSE m \in Range(list) : \A x \in Range(list) : m <= x
argmin(list) ==
    (CHOOSE i \in 1..Len(list) :
        /\ list[i] = Min(list)
        /\ \A k \in 1..(i - 1) : list[k] # Min(list)) - 1

\* The table whose column count the point is checked against: datalist[0].
\* (CheckedLast is the last table instead.)
CheckedLast(datalist) == datalist[Len(datalist)]
Checked(datalist) == datalist[1]

NoResult == [traj_file |-> "", frame |-> -1]
Raise(e) == [err |-> e] @@ NoResult

find_frame(point, orgtraj_list) ==
    IF \E i \in 1..Len(orgtraj_list) : "data" \notin DOMAIN orgtraj_list[i]
    THEN Raise(NoDataAttr)
    ELSE IF Len(orgtraj_list) = 0 THEN Raise(IndexError)
    ELSE
    LET datalist == [i \in 1..Len(orgtraj_list) |-> orgtraj_list[i].data]
    IN  IF Len(point) # Len(Checked(datalist).columns) THEN Raise(DimensionError)
        ELSE
        LET dists == [i \in 1..Len(datalist) |-> point_dist(datalist[i], point)]
            failing == {i \in 1..Len(datalist) :
                          dists[i].err # NoError \/ Len(dists[i].dists) = 0}
        IN  IF failing # {}
            THEN LET i == CHOOSE k \in failing : \A m \in failing : k <= m
                 IN  Raise(IF dists[i].err # NoError THEN dists[i].err
                           ELSE EmptyMinError)
            ELSE
            LET n_traj == argmin([i \in 1..Len(datalist) |-> Min(dists[i].dists)])
                winner == orgtraj_list[n_traj + 1]
                frame_index == argmin(dists[n_traj + 1].dists)
            IN  IF "traj_file" \notin DOMAIN winner THEN Raise(NoTrajFileAttr)
                ELSE IF "index" \notin DOMAIN winner THEN Raise(NoIndexAttr)
                ELSE IF frame_index >= Len(winner.index) THEN Raise(IndexError)
                ELSE [err |-> NoError, traj_file |-> winner.traj_file,
                      frame |-> winner.index[frame_index + 1][1]]

----------------------------------------------------------------------------
(* The calls of find_frame, on lists of instances filled by trajin.        *)

TrajFiles == <<"a.xtc", "b.xtc">>

Shifted(N) == [i \in 1..N |-> i + 5]
Alternating(N) == [i \in 1..N |-> i % 2]

\* What trajin is given besides the array, its column names and the file.
Fillings(data) ==
    {[frames |-> None, states |-> None, metadata |-> EmptyDict],
     [frames |-> Given(Shifted(data.shape[1])),
      states |-> Given(Alternating(data.shape[1])), metadata |-> EmptyDict]}
    \cup (IF data.shape[2] = 1
          THEN {[frames |-> None, states |-> None,
                 metadata |-> "index" :> <<<<4, 0>>>>]}
          ELSE {})

\* An instance never filled, and trajin's arguments for one that is.
Fresh == [filled |-> FALSE]
Instances == {Fresh} \cup
    UNION {{[filled |-> TRUE, data |-> data, frames |-> f.frames,
             states |-> f.states, metadata |-> f.metadata] : f \in Fillings(data)} :
           data \in Arrays}

Populate(inst, k) ==
    IF ~inst.filled THEN EmptyDict
    ELSE trajin(EmptyDict, inst.data, SubSeq(Labels, 1, inst.data.shape[2]),
                TrajFiles[k], inst.frames, inst.states, inst.metadata).self

Collections == {<<>>} \cup {<<Populate(a, 1)>> : a \in Instances}
    \cup {<<Populate(a, 1), Populate(b, 2)>> : a \in Instances, b \in Instances}

Points == UNION {RowsOf(D) : D \in Dims}

InitFind ==
    /\ ot = EmptyDict
    /\ store = EmptyDict
    /\ handles = 0
    /\ res \in {[op |-> "find_frame", point |-> point, orgtraj_list |-> c,
                 out |-> Pending] : point \in Points, c \in Collections}

FindFrameCall ==
    /\ res.op = "find_frame"
    /\ res.out = Pending
    /\ res' = [res EXCEPT !.out = find_frame(res.point, res.orgtraj_list)]
    /\ UNCHANGED <<ot, store, handles>>

NextFind == FindFrameCall

SpecFind == InitFind /\ [][NextFind]_vars

----------------------------------------------------------------------------
(* h5dump and h5load                                                       *)

Files == {"a.h5", "b.h5"}
Datasets == {"traj", "alt"}
DefaultDataset == "traj"

TypeError == "TypeError"
KeyError == "KeyError: No object named the dataset in the file"
NoMetadataAttr == "AttributeError: 'AttributeSet' object has no attribute 'metadata'"

\* A file that does not exist, and a group of a file that holds no table.
NoFile == [exists |-> FALSE, nodes |-> EmptyDict]
EmptyGroup == [df |-> NoTable, attrs |-> EmptyDict]

Without(dict, key) == [k \in (DOMAIN dict) \ {key} |-> dict[k]]

\* pd.HDFStore(filename): mode 'a' creates the file when there is none.
\* (HDFStoreTruncating is mode 'w', which empties the file.)
HDFStoreTruncating(fs, filename) ==
    [fs EXCEPT ![filename] = [exists |-> TRUE, nodes |-> EmptyDict]]
HDFStore(fs, filename) ==
    IF fs[filename].exists THEN fs
    ELSE [fs EXCEPT ![filename] = [exists |-> TRUE, nodes |-> EmptyDict]]

\* store.put(key, value) in the fixed format: the node of that name is
\* removed with all it holds, a new group is made, and the value is stored
\* in it; a value that is no pandas object is refused once the group is made.
\* (putAppending is put with append=True: rows are added to the old table.)
IsFrame(value) == "columns" \in DOMAIN value
putAppending(file, key, value) ==
    IF ~IsFrame(value)
    THEN [err |-> TypeError,
          file |-> [file EXCEPT !.nodes = (key :> EmptyGroup) @@ Without(file.nodes, key)]]
    ELSE [err |-> NoError,
          file |-> [file EXCEPT !.nodes =
                      (key :> [df |-> IF key \in DOMAIN file.nodes
                                        /\ file.nodes[key].df.columns = value.columns
                                     THEN [value EXCEPT
                                             !.values = file.nodes[key].df.values \o @,
                                             !.index = file.nodes[key].df.index \o @]
                                     ELSE value,
                               attrs |-> EmptyDict])
                      @@ Without(file.nodes, key)]]
put(file, key, value) ==
    IF ~IsFrame(value)
    THEN [err |-> TypeError,
          file |-> [file EXCEPT !.nodes = (key :> EmptyGroup) @@ Without(file.nodes, key)]]
    ELSE [err |-> NoError,
          file |-> [file EXCEPT !.nodes =
                      (key :> [df |-> value, attrs |-> EmptyDict])
                      @@ Without(file.nodes, key)]]

\* The handle is closed on the last line only: an exception of put leaves
\* it open.
h5dump(fs, open, filename, df, dataset, metadata) ==
    LET opened == HDFStore(fs, filename)
        written == put(opened[filename], dataset, df)
    IN  IF written.err # NoError
        THEN [err |-> written.err,
              store |-> [opened EXCEPT ![filename] = written.file],
              handles |-> open + 1]
        ELSE [err |-> NoError,
              store |-> [opened EXCEPT ![filename] =
                           [written.file EXCEPT !.nodes[dataset].attrs =
                               "metadata" :> metadata]],
              handles |-> open]

\* The with statement closes the handle however the block is left.
Loaded(e, fs, open, data, metadata) ==
    [err |-> e, store |-> fs, handles |-> open, data |-> data, metadata |-> metadata]
h5load(fs, open, filename, dataset) ==
    LET opened == HDFStore(fs, filename)
        nodes == opened[filename].nodes
    IN  IF dataset \notin DOMAIN nodes
        THEN Loaded(KeyError, opened, open, NoTable, EmptyDict)
        ELSE IF nodes[dataset].df = NoTable
        THEN Loaded(TypeError, opened, open, NoTable, EmptyDict)
        ELSE IF "metadata" \notin DOMAIN nodes[dataset].attrs
        THEN Loaded(NoMetadataAttr, opened, open, NoTable, EmptyDict)
        ELSE Loaded(NoError, opened, open, nodes[dataset].df,
                    nodes[dataset].attrs.metadata)

----------------------------------------------------------------------------
(* The calls of h5dump and h5load.                                         *)

\* Two arrays of MaxN rows and one column, and the tables prepare makes of them.
Constant(v) == [shape |-> <<MaxN, 1>>, rows |-> [i \in 1..MaxN |-> <<v>>]]
SampleArrays == {Constant(v) : v \in DataVals}
SampleFrames ==
    {prepare(a, <<"phi">>, "a.xtc", None, None, EmptyDict).df : a \in SampleArrays}
SampleMetadata ==
    {"traj_file" :> "a.xtc", ("traj_file" :> "b.xtc") @@ ("note" :> "run1")}

InitStore ==
    /\ ot = EmptyDict
    /\ store = [f \in Files |-> NoFile]
    /\ handles = 0
    /\ res = [op |-> "none", err |-> NoError]

H5dumpCall ==
    \E filename \in Files, dataset \in Datasets, metadata \in SampleMetadata,
       df \in SampleFrames \cup {Constant(0)} :
        LET out == h5dump(store, handles, filename, df, dataset, metadata)
        IN  /\ out.handles <= MaxLeak
            /\ store' = out.store
            /\ handles' = out.handles
            /\ res' = [op |-> "h5dump", filename |-> filename, df |-> df,
                       dataset |-> dataset, metadata |-> metadata, err |-> out.err,
                       existed |-> dataset \in DOMAIN store[filename].nodes]
            /\ UNCHANGED ot

H5loadCall ==
    \E filename \in Files, dataset \in Datasets :
        LET out == h5load(store, handles, filename, dataset)
        IN  /\ store' = out.store
            /\ handles' = out.handles
            /\ res' = [op |-> "h5load", filename |-> filename, dataset |-> dataset,
                       err |-> out.err, data |-> out.data, metadata |-> out.metadata]
            /\ UNCHANGED ot

NextStore == H5dumpCall \/ H5loadCall

SpecStore == InitStore /\ [][NextStore]_vars

----------------------------------------------------------------------------
(* class orgtraj: trajread and trajwrite                                   *)

\* h5load(infile): the dataset is always the default one.
trajread(self, fs, open, infile) ==
    LET l == h5load(fs, open, infile, DefaultDataset)
    IN  IF l.err # NoError
        THEN [err |-> l.err, self |-> self, store |-> l.store, handles |-> l.handles]
        ELSE [err |-> NoError,
              self |-> SetAttrs(Update(self, "data" :> l.data), l.metadata),
              store |-> l.store, handles |-> l.handles]

\* h5dump(outfile, self.data, dataset=dataset, **meta): self.data must be
\* set, and no key of meta may be the name of a parameter of h5dump.
H5dumpParams == {"filename", "df", "dataset"}
trajwrite(self, fs, open, outfile, dataset) ==
    LET meta == Without(self, "data")
    IN  IF "data" \notin DOMAIN self
        THEN [err |-> NoDataAttr, store |-> fs, handles |-> open]
        ELSE IF (DOMAIN meta) \cap H5dumpParams # {}
        THEN [err |-> TypeError, store |-> fs, handles |-> open]
        ELSE h5dump(fs, open, outfile, self.data, dataset, meta)

----------------------------------------------------------------------------
(* The calls on one orgtraj instance.                                      *)

OTMetadata == {EmptyDict, "note" :> "run1", "dataset" :> "alt"}

InitOT ==
    /\ ot = EmptyDict
    /\ store = [f \in Files |-> NoFile]
    /\ handles = 0
    /\ res = [op |-> "none", err |-> NoError]

\* orgtraj(): a new instance, with no attribute.
NewInstance ==
    /\ ot # EmptyDict
    /\ ot' = EmptyDict
    /\ res' = [op |-> "orgtraj", err |-> NoError]
    /\ UNCHANGED <<store, handles>>

TrajinCall ==
    \E data \in SampleArrays, features \in {<<"phi">>, <<"phi", "psi">>},
       metadata \in OTMetadata :
        LET traj_file == TrajFiles[data.rows[1][1] + 1]
            out == trajin(ot, data, features, traj_file, None, None, metadata)
        IN  /\ ot' = out.self
            /\ res' = [op |-> "trajin", data |-> data, features |-> features,
                       traj_file |-> traj_file, metadata |-> metadata,
                       err |-> out.err]
            /\ UNCHANGED <<store, handles>>

TrajreadCall ==
    \E infile \in Files :
        LET out == trajread(ot, store, handles, infile)
        IN  /\ ot' = out.self
            /\ store' = out.store
            /\ handles' = out.handles
            /\ res' = [op |-> "trajread", infile |-> infile, err |-> out.err]

TrajwriteCall ==
    \E outfile \in Files, dataset \in Datasets :
        LET out == trajwrite(ot, store, handles, outfile, dataset)
        IN  /\ out.handles <= MaxLeak
            /\ store' = out.store
            /\ handles' = out.handles
            /\ res' = [op |-> "trajwrite", outfile |-> outfile, dataset |-> dataset,
                       err |-> out.err]
            /\ UNCHANGED ot

NextOT == NewInstance \/ TrajinCall \/ TrajreadCall \/ TrajwriteCall

SpecOT == InitOT /\ [][NextOT]_vars

----------------------------------------------------------------------------
(* Properties of prepare (SpecPrepare).                                    *)

PrepareDone == res.op = "prepare" /\ res.out # Pending

\* C5: when prepare returns, its table has exactly N row keys, in the order
\* of the input rows, and the key of row i is (frames[i] if frames is given,
\* else i; states[i] if states is given, else 0).
C5_RowKeys ==
    (PrepareDone /\ res.out.err = NoError) =>
        LET N == res.data.shape[1]
            index == res.out.df.index
        IN  /\ Len(index) = N
            /\ Len(res.out.df.values) = N
            /\ \A i \in 1..N :
                 index[i] = <<IF res.frames.given THEN res.frames.val[i] ELSE i,
                              IF res.states.given THEN res.states.val[i] ELSE 0>>

C5_Witness ==
    /\ PrepareDone
    /\ res.out.err = NoError
    /\ res.data.shape[1] = MaxN
    /\ res.frames = None
    /\ res.states.given
    /\ res.out.df.index[MaxN] = <<MaxN, res.states.val[MaxN]>>

\* C10: prepare fails with a shape error, and produces no table and no
\* metadata, whenever len(features) differs from D, or frames is given with
\* a length other than N, or states is given with a length other than N.
C10_ShapeErrors ==
    (/\ PrepareDone
     /\ \/ Len(res.features) # res.data.shape[2]
        \/ res.frames.given /\ Len(res.frames.val) # res.data.shape[1]
        \/ res.states.given /\ Len(res.states.val) # res.data.shape[1])
    => (res.out.err = ValueError /\ res.out.df = NoTable
        /\ res.out.metadata = EmptyDict)

----------------------------------------------------------------------------
(* Properties of find_frame (SpecFind).                                    *)

FindDone == res.op = "find_frame" /\ res.out # Pending

SqDist(row, point) ==
    SumTo([j \in 1..Len(point) |-> (row[j] - point[j]) * (row[j] - point[j])],
          Len(point))

\* The rows of a collection, as <<position of the instance, row>>.
RowsIn(list) ==
    {<<i, r>> \in (1..Len(list)) \X (1..MaxN) : r <= Len(list[i].data.values)}

Nearest(list, point) ==
    {n \in RowsIn(list) :
        \A m \in RowsIn(list) :
            SqDist(list[n[1]].data.values[n[2]], point)
                <= SqDist(list[m[1]].data.values[m[2]], point)}

\* A non-empty list of filled instances whose tables have rows and as many
\* columns as the point has coordinates.
WellFormed(list, point) ==
    /\ Len(list) >= 1
    /\ \A i \in 1..Len(list) :
        /\ "data" \in DOMAIN list[i]
        /\ Len(list[i].data.columns) = Len(point)
        /\ Len(list[i].data.values) >= 1

\* C2: on a well-formed collection find_frame returns the traj_file of an
\* instance holding a row nearest to the point, and that row's frame label
\* (the first component of its (frame, state) row key).
C2_NearestFrame ==
    (FindDone /\ WellFormed(res.orgtraj_list, res.point)) =>
        /\ res.out.err = NoError
        /\ \E n \in Nearest(res.orgtraj_list, res.point) :
            /\ res.out.traj_file = res.orgtraj_list[n[1]].traj_file
            /\ res.out.frame = res.orgtraj_list[n[1]].data.index[n[2]][1]

\* C3: when several rows are nearest, find_frame returns the row of the
\* earliest instance that holds one, and the earliest such row in it.
C3_FirstOnTie ==
    (/\ FindDone
     /\ WellFormed(res.orgtraj_list, res.point)
     /\ Cardinality(Nearest(res.orgtraj_list, res.point)) > 1) =>
        LET near == Nearest(res.orgtraj_list, res.point)
            first == CHOOSE n \in near :
                        \A m \in near :
                            n[1] < m[1] \/ (n[1] = m[1] /\ n[2] <= m[2])
        IN  /\ res.out.err = NoError
            /\ res.out.traj_file = res.orgtraj_list[first[1]].traj_file
            /\ res.out.frame = res.orgtraj_list[first[1]].data.index[first[2]][1]

Filled(list) == Len(list) >= 1 /\ \A i \in 1..Len(list) : "data" \in DOMAIN list[i]

\* C4 as stated: find_frame fails with the dimension-mismatch error, and
\* returns nothing, whenever len(point) differs from the column count of any
\* table of the collection (here: of tables that all have rows).
C4_AnyTableChecked ==
    (/\ FindDone
     /\ Filled(res.orgtraj_list)
     /\ \A i \in 1..Len(res.orgtraj_list) : Len(res.orgtraj_list[i].data.values) >= 1
     /\ \E i \in 1..Len(res.orgtraj_list) :
            Len(res.orgtraj_list[i].data.columns) # Len(res.point))
    => (res.out.err = DimensionError /\ res.out.traj_file = NoResult.traj_file
        /\ res.out.frame = NoResult.frame)

\* C4 as amended: find_frame fails with the dimension-mismatch error, and
\* returns nothing, whenever len(point) differs from the column count of the
\* first table of the collection.
C4_FirstTableChecked ==
    (/\ FindDone
     /\ Filled(res.orgtraj_list)
     /\ Len(res.orgtraj_list[1].data.columns) # Len(res.point))
    => (res.out.err = DimensionError /\ res.out.traj_file = NoResult.traj_file
        /\ res.out.frame = NoResult.frame)

C4_Witness ==
    /\ FindDone
    /\ Len(res.orgtraj_list) = 2
    /\ Filled(res.orgtraj_list)
    /\ Len(res.orgtraj_list[1].data.columns) # Len(res.point)
    /\ Len(res.orgtraj_list[2].data.columns) = Len(res.point)
    /\ res.out.err = DimensionError

----------------------------------------------------------------------------
(* Properties of h5dump and h5load (SpecStore).                            *)

DumpDone == res.op = "h5dump" /\ res.err = NoError

\* C1: once h5dump(c, table, d, **metadata) has returned, h5load(c, d)
\* returns a table with the same values, row keys and column labels in the
\* same order, and a metadata mapping equal key for key.
C1_RoundTrip ==
    DumpDone =>
        LET back == h5load(store, handles, res.filename, res.dataset)
        IN  /\ back.err = NoError
            /\ back.data.values = res.df.values
            /\ back.data.index = res.df.index
            /\ back.data.columns = res.df.columns
            /\ DOMAIN back.metadata = DOMAIN res.metadata
            /\ \A k \in DOMAIN res.metadata : back.metadata[k] = res.metadata[k]

C1_Witness ==
    /\ DumpDone
    /\ res.dataset # DefaultDataset
    /\ "note" \in DOMAIN res.metadata
    /\ Len(res.df.values) = MaxN
    /\ h5load(store, handles, res.filename, res.dataset).metadata.traj_file = "b.xtc"

\* C8: a step of h5dump that writes under a dataset name the container
\* already holds leaves h5load returning the table and the metadata just
\* written and nothing else: no row, column or metadata key of the earlier
\* dataset remains, and the other datasets are as they were.
C8_Overwrite ==
    [][(/\ res'.op = "h5dump"
        /\ res'.err = NoError
        /\ res'.dataset \in DOMAIN store[res'.filename].nodes)
       => LET back == h5load(store', handles', res'.filename, res'.dataset)
          IN  /\ back.err = NoError
              /\ back.data = res'.df
              /\ back.metadata = res'.metadata
              /\ \A d \in Datasets \ {res'.dataset} :
                    h5load(store', handles', res'.filename, d).data
                        = h5load(store, handles, res'.filename, d).data]_vars

C8_Witness ==
    /\ DumpDone
    /\ res.existed
    /\ "note" \notin DOMAIN res.metadata
    /\ h5load(store, handles, res.filename, res.dataset).metadata = res.metadata

\* C9: when h5dump or h5load has ended, by returning or by raising, no
\* handle on a container is left open.
C9_HandleReleased ==
    res.op \in {"h5dump", "h5load"} => handles = 0

----------------------------------------------------------------------------
(* Properties of the orgtraj instance (SpecOT).                            *)

\* The table and the metadata of the call that has just filled the instance.
LastFilling ==
    IF res.op = "trajin"
    THEN prepare(res.data, res.features, res.traj_file, None, None, res.metadata)
    ELSE LET l == h5load(store, handles, res.infile, DefaultDataset)
         IN  [err |-> l.err, df |-> l.data, metadata |-> l.metadata]

\* C6: after a trajin or a trajread the instance holds the table of that
\* call, and its other attributes are exactly the metadata of that call:
\* nothing is left of an earlier filling.
C6_FullReplacement ==
    (res.op \in {"trajin", "trajread"} /\ res.err = NoError) =>
        /\ ot.data = LastFilling.df
        /\ (DOMAIN ot) \ {"data"} = DOMAIN LastFilling.metadata
        /\ \A k \in DOMAIN LastFilling.metadata : ot[k] = LastFilling.metadata[k]

\* C7: trajwrite of a filled instance under any dataset name, followed by
\* trajread of the same container into a new instance, gives an instance
\* with the same table and the same other attributes.
C7_WriteReadBack ==
    (res.op = "trajwrite" /\ "data" \in DOMAIN ot) =>
        /\ res.err = NoError
        /\ LET back == trajread(EmptyDict, store, handles, res.outfile)
           IN  back.err = NoError /\ back.self = ot

====
